---- MODULE Spec2Model ----
(***************************************************************************)
(* A model of app_snowflake.py, the Pharma Sales Dashboard script.         *)
(*                                                                         *)
(* The script is one top-to-bottom Streamlit run: four load_data calls,    *)
(* two sidebar select boxes, the granularity branch that melts the chosen  *)
(* wide table, the single-product projection, and five charts.  An         *)
(* uncaught Python exception ends the run (Streamlit shows it to the       *)
(* user); st.error only prints a message and the run continues.            *)
(*                                                                         *)
(* A DataFrame is [columns |-> <<names>>, rows |-> <<tuples>>], a row      *)
(* being the tuple of its cells in column order.  Dates are the integers   *)
(* YYYYMMDD.  The pandas calls (melt, groupby().agg(sum), columns          *)
(* .difference, df[[...]]) are modelled by what pandas >= 1.1 does.        *)
(***************************************************************************)
EXTENDS Integers, Sequences, FiniteSets, TLC

VARIABLES
    secrets,                \* st.secrets["snowflake"]: "absent", "incomplete", "complete"
    pc,                     \* the statement of the script that runs next
    loads,                  \* the datasets load_data was called for, in call order
    rejected,               \* the datasets whose query the warehouse rejected
    sales_daily, sales_hourly, sales_monthly, sales_weekly,
    product, option,        \* the two sidebar selections
    subheader,              \* the st.subheader of the granularity branch
    id_vars, value_vars,    \* what the granularity branch hands to melt_data
    sales_data,             \* the long frame
    filtered_data,          \* the single-product frame
    sales_data_comparative, sales_annual,
    charts,                 \* the figures given to st.plotly_chart, in order
    st_errors,              \* the messages printed with st.error
    exception               \* the uncaught exception that ended the run, if any

vars == <<secrets, pc, loads, rejected, sales_daily, sales_hourly, sales_monthly,
          sales_weekly, product, option, subheader, id_vars, value_vars, sales_data,
          filtered_data, sales_data_comparative, sales_annual, charts, st_errors,
          exception>>

----------------------------------------------------------------------------
(* Bounds of the function-level inputs *)

MaxRows == 2
MaxSales == 1

----------------------------------------------------------------------------
(* Sequences *)

Range(s) == {s[i] : i \in 1..Len(s)}

Index(s, x) == CHOOSE i \in 1..Len(s) : s[i] = x

\* s without the elements at or after an earlier equal one (order kept)
Unique(s) == SelectSeq([i \in 1..Len(s) |->
                          IF \E j \in 1..(i - 1) : s[j] = s[i] THEN "" ELSE s[i]],
                       LAMBDA x : x # "")

----------------------------------------------------------------------------
(* Column names *)

\* The column names of the model in lexicographic (Index.sort) order
NameOrder == <<"DATUM", "HOUR", "M01AB", "M01AE", "MONTH", "WEEKDAY_NAME", "YEAR">>

NameRank(c) == Index(NameOrder, c)

\* str.upper on the names the warehouse returns
Upper(c) ==
    CASE c = "datum" -> "DATUM"
      [] c = "hour" -> "HOUR"
      [] c = "m01ab" -> "M01AB"
      [] c = "m01ae" -> "M01AE"
      [] c = "month" -> "MONTH"
      [] c = "weekday_name" -> "WEEKDAY_NAME"
      [] c = "year" -> "YEAR"
      [] OTHER -> c

\* the names as the warehouse driver returns them (lower case)
Lower(c) ==
    CASE c = "DATUM" -> "datum"
      [] c = "HOUR" -> "hour"
      [] c = "M01AB" -> "m01ab"
      [] c = "M01AE" -> "m01ae"
      [] c = "MONTH" -> "month"
      [] c = "WEEKDAY_NAME" -> "weekday_name"
      [] c = "YEAR" -> "year"
      [] OTHER -> c

\* pandas Index.difference: the names of cols not in excluded, sorted, unique
Difference(cols, excluded) ==
    SelectSeq(NameOrder, LAMBDA c : c \in Range(cols) /\ c \notin excluded)

\* the exclusion list of the product select box
ProductExcluded == {"YEAR", "MONTH", "HOUR", "WEEKDAY_NAME", "DATUM"}

\* the exclusion list of the four granularity branches
ValueExcluded == {"YEAR", "MONTH", "HOUR", "WEEKDAY_NAME"}

----------------------------------------------------------------------------
(* DataFrames *)

\* pd.DataFrame()
EmptyFrame == [columns |-> <<>>, rows |-> <<>>]

\* a name the script has not assigned yet
Undefined == [columns |-> <<"<undefined>">>, rows |-> <<>>]

None == "<None>"

Cell(df, i, c) == df.rows[i][Index(df.columns, c)]

\* pd.to_datetime(d).dt.year and .month of a date YYYYMMDD
Year(d) == d \div 10000
MonthOf(d) == (d \div 100) % 100

\* one cell of a wide row made from an observation [datum, hour, ab, ae]
Field(o, c) ==
    CASE c = "DATUM" -> o.datum
      [] c = "HOUR" -> o.hour
      [] c = "M01AB" -> o.ab
      [] c = "M01AE" -> o.ae
      [] c = "MONTH" -> MonthOf(o.datum)
      [] c = "WEEKDAY_NAME" -> "Monday"
      [] c = "YEAR" -> Year(o.datum)

\* the wide table with these columns and one row per observation
WideFrame(cols, obs) ==
    [columns |-> cols,
     rows |-> [i \in 1..Len(obs) |-> [j \in 1..Len(cols) |-> Field(obs[i], cols[j])]]]

----------------------------------------------------------------------------
(* Exceptions *)

Exc(type, at, names) == [type |-> type, at |-> at, names |-> names]

NoException == Exc("none", "", <<>>)

----------------------------------------------------------------------------
(* The pandas operations the script calls *)

\* DataFrame.melt stacking every name of value_vars, an identifier among them
DataFrameMeltKeepIds(df, idv, vv) ==
    LET N == Len(df.rows)
        K == Len(vv)
    IN  [exc |-> NoException,
         frame |->
           [columns |-> idv \o <<"PRODUCT", "SALES">>,
            rows |-> [n \in 1..(N * K) |->
                        LET v == vv[((n - 1) \div N) + 1]
                            i == ((n - 1) % N) + 1
                        IN  [k \in 1..Len(idv) |-> Cell(df, i, idv[k])]
                              \o <<v, Cell(df, i, v)>>]]]

\* DataFrame.melt(id_vars, value_vars, var_name='PRODUCT', value_name='SALES'):
\* pandas checks the names itself, keeps the columns id_vars + value_vars without
\* repetition, pops the identifier columns and stacks what is left, one value
\* column after the other.
DataFrameMelt(df, idv, vv) ==
    LET absent == SelectSeq(idv \o vv, LAMBDA c : c \notin Range(df.columns))
        kept == Unique(idv \o vv)
        melted == SelectSeq(kept, LAMBDA c : c \notin Range(idv))
        N == Len(df.rows)
        K == Len(melted)
    IN  IF absent # <<>>
        THEN [exc |-> Exc("KeyError", "DataFrame.melt", absent), frame |-> Undefined]
        ELSE [exc |-> NoException,
              frame |->
                [columns |-> idv \o <<"PRODUCT", "SALES">>,
                 rows |-> [n \in 1..(N * K) |->
                             LET v == melted[((n - 1) \div N) + 1]
                                 i == ((n - 1) % N) + 1
                             IN  [k \in 1..Len(idv) |-> Cell(df, i, idv[k])]
                                   \o <<v, Cell(df, i, v)>>]]]

\* df[names]: a KeyError naming the absent names, else the projection
Select(df, names) ==
    LET absent == SelectSeq(names, LAMBDA c : c \notin Range(df.columns))
    IN  IF absent # <<>>
        THEN [exc |-> Exc("KeyError", "filtered_data", absent), frame |-> Undefined]
        ELSE [exc |-> NoException,
              frame |-> [columns |-> names,
                         rows |-> [i \in 1..Len(df.rows) |->
                                     [k \in 1..Len(names) |-> Cell(df, i, names[k])]]]]

\* df.rename(columns={old: new})
Rename(df, old, new) ==
    [df EXCEPT !.columns = [k \in 1..Len(df.columns) |->
                              IF df.columns[k] = old THEN new ELSE df.columns[k]]]

\* the sort rank of a cell of column c: PRODUCT holds names, the others integers
Rank(c, x) == IF c = "PRODUCT" THEN NameRank(x) ELSE x

\* key a sorts before key b (lexicographic over the columns keys)
KeyLess(keys, a, b) ==
    \E k \in 1..Len(keys) :
        /\ \A j \in 1..(k - 1) : a[j] = b[j]
        /\ Rank(keys[k], a[k]) < Rank(keys[k], b[k])

\* a grouping whose entry keeps the last SALES of its key instead of the sum
AddToGroupLast(keys, acc, key, sales) ==
    IF \E i \in 1..Len(acc) : SubSeq(acc[i], 1, Len(keys)) = key
    THEN LET i == CHOOSE i \in 1..Len(acc) : SubSeq(acc[i], 1, Len(keys)) = key
         IN  [acc EXCEPT ![i] = key \o <<sales>>]
    ELSE LET p == Cardinality({i \in 1..Len(acc) :
                                 KeyLess(keys, SubSeq(acc[i], 1, Len(keys)), key)})
         IN  SubSeq(acc, 1, p) \o <<key \o <<sales>>>> \o SubSeq(acc, p + 1, Len(acc))

\* one more row for the groups acc (sorted by key, one entry per key): its SALES
\* are added to the entry of its key, or open a new entry at the key's place
AddToGroup(keys, acc, key, sales) ==
    IF \E i \in 1..Len(acc) : SubSeq(acc[i], 1, Len(keys)) = key
    THEN LET i == CHOOSE i \in 1..Len(acc) : SubSeq(acc[i], 1, Len(keys)) = key
         IN  [acc EXCEPT ![i] = key \o <<acc[i][Len(keys) + 1] + sales>>]
    ELSE LET p == Cardinality({i \in 1..Len(acc) :
                                 KeyLess(keys, SubSeq(acc[i], 1, Len(keys)), key)})
         IN  SubSeq(acc, 1, p) \o <<key \o <<sales>>>> \o SubSeq(acc, p + 1, Len(acc))

RECURSIVE GroupRows(_, _, _)
GroupRows(df, keys, n) ==
    IF n = 0 THEN <<>>
    ELSE AddToGroup(keys, GroupRows(df, keys, n - 1),
                    [k \in 1..Len(keys) |-> Cell(df, n, keys[k])],
                    Cell(df, n, "SALES"))

\* df.groupby(keys).agg({'SALES': 'sum'}).reset_index()
GroupBySum(df, keys) ==
    [columns |-> keys \o <<"SALES">>, rows |-> GroupRows(df, keys, Len(df.rows))]

\* df['YEAR'] = pd.to_datetime(df['DATUM']).dt.year
AssignYear(df) ==
    [columns |-> df.columns \o <<"YEAR">>,
     rows |-> [i \in 1..Len(df.rows) |-> df.rows[i] \o <<Year(Cell(df, i, "DATUM"))>>]]

----------------------------------------------------------------------------
(* The functions of the script *)

SecretsMessage == "Secrets not loaded. Please check your secrets.toml file."

\* get_secrets without its st.error
get_secrets_silent(config) == <<>>

\* get_secrets: the message it prints with st.error (it returns the configuration)
get_secrets(config) == IF config = "absent" THEN <<SecretsMessage>> ELSE <<>>

\* get_engine: None without a configuration, a KeyError on a configuration that
\* lacks a key of the URL, an engine otherwise (create_engine does not connect)
get_engine(config) ==
    CASE config = "absent" -> "None"
      [] config = "incomplete" -> "KeyError"
      [] OTHER -> "engine"

\* what the warehouse answers to a query: a table, or a rejection
Rejected == [columns |-> <<"<rejected>">>, rows |-> <<>>]

\* load_data: the frame it returns or the exception that leaves it
load_data(config, reply) ==
    LET engine == get_engine(config)
    IN  CASE engine = "None" -> [exc |-> NoException, frame |-> EmptyFrame]
          [] engine = "KeyError" ->
                [exc |-> Exc("KeyError", "get_engine", <<"user">>), frame |-> Undefined]
          [] reply = Rejected ->
                [exc |-> Exc("OperationalError", "load_data", <<>>), frame |-> Undefined]
          [] OTHER ->
                [exc |-> NoException,
                 frame |-> [reply EXCEPT
                              !.columns = [k \in 1..Len(reply.columns) |->
                                             Upper(reply.columns[k])]]]

\* melt_data without its own check of id_vars
melt_data_unchecked(df, idv, vv) == DataFrameMelt(df, idv, vv)

\* melt_data: the KeyError of its own check, else DataFrame.melt
melt_data(df, idv, vv) ==
    LET missing_id_vars == SelectSeq(idv, LAMBDA var : var \notin Range(df.columns))
    IN  IF missing_id_vars # <<>>
        THEN [exc |-> Exc("KeyError", "melt_data", missing_id_vars), frame |-> Undefined]
        ELSE DataFrameMelt(df, idv, vv)

----------------------------------------------------------------------------
(* The warehouse *)

sales_daily_query == "SELECT * FROM PHARMA_SALES_DB.SALES_DATA.TABLE_SALES_DAILY"
sales_hourly_query == "SELECT * FROM PHARMA_SALES_DB.SALES_DATA.TABLE_SALES_HOURLY"
sales_monthly_query == "SELECT * FROM PHARMA_SALES_DB.SALES_DATA.TABLE_SALES_MONTHLY"
sales_weekly_query == "SELECT * FROM PHARMA_SALES_DB.SALES_DATA.TABLE_SALES_WEEKLY"

Obs(d, h, ab, ae) == [datum |-> d, hour |-> h, ab |-> ab, ae |-> ae]

\* The rows of the four pre-aggregated tables: the same sales by day, by hour, by
\* month and by week
SampleObs(query) ==
    CASE query = sales_daily_query ->
            <<Obs(20191231, 0, 1, 0), Obs(20200101, 0, 5, 2), Obs(20200102, 0, 3, 4)>>
      [] query = sales_hourly_query ->
            <<Obs(20191231, 9, 1, 0), Obs(20200101, 8, 2, 1), Obs(20200101, 9, 3, 1),
              Obs(20200102, 8, 3, 4)>>
      [] query = sales_monthly_query ->
            <<Obs(20191231, 0, 1, 0), Obs(20200131, 0, 8, 6)>>
      [] query = sales_weekly_query ->
            <<Obs(20200105, 0, 9, 6)>>

\* The column layouts a table of the warehouse may have: the full one, and ones
\* that lack the hour, a product or the date
Schemas ==
    { <<"DATUM", "M01AB", "M01AE", "YEAR", "MONTH", "HOUR", "WEEKDAY_NAME">>,
      <<"DATUM", "M01AB", "M01AE", "YEAR", "MONTH", "WEEKDAY_NAME">>,
      <<"DATUM", "M01AB", "YEAR", "MONTH", "HOUR", "WEEKDAY_NAME">>,
      <<"M01AB", "M01AE", "YEAR", "MONTH", "HOUR", "WEEKDAY_NAME">> }

\* a table as the driver returns it: the column names in lower case
Raw(df) == [df EXCEPT !.columns = [k \in 1..Len(df.columns) |-> Lower(df.columns[k])]]

\* what the warehouse may answer to a query
Replies(query) ==
    {Rejected} \cup {Raw(WideFrame(s, SampleObs(query))) : s \in Schemas}

----------------------------------------------------------------------------
(* The script, statement by statement *)

Script ==
    <<"load_daily", "load_hourly", "load_monthly", "load_weekly", "select_product",
      "select_option", "highlight", "branch", "filtered_data", "fig_prod", "fig",
      "comparative", "annual", "histogram", "done">>

After(p) == Script[Index(Script, p) + 1]

\* the weekly table loaded before the monthly one
QueryAtSwapped(p) ==
    CASE p = "load_daily" -> sales_daily_query
      [] p = "load_hourly" -> sales_hourly_query
      [] p = "load_monthly" -> sales_weekly_query
      [] p = "load_weekly" -> sales_monthly_query

\* the query of each load statement
QueryAt(p) ==
    CASE p = "load_daily" -> sales_daily_query
      [] p = "load_hourly" -> sales_hourly_query
      [] p = "load_monthly" -> sales_monthly_query
      [] p = "load_weekly" -> sales_weekly_query

Options == {"Daily", "Hourly", "Weekly", "Monthly"}

Init ==
    /\ secrets \in {"absent", "incomplete", "complete"}
    /\ pc = "load_daily"
    /\ loads = <<>>
    /\ rejected = {}
    /\ sales_daily = Undefined
    /\ sales_hourly = Undefined
    /\ sales_monthly = Undefined
    /\ sales_weekly = Undefined
    /\ product = None
    /\ option = None
    /\ subheader = None
    /\ id_vars = <<>>
    /\ value_vars = <<>>
    /\ sales_data = Undefined
    /\ filtered_data = Undefined
    /\ sales_data_comparative = Undefined
    /\ sales_annual = Undefined
    /\ charts = <<>>
    /\ st_errors = <<>>
    /\ exception = NoException

\* sales_daily = load_data(sales_daily_query), and the three loads after it
LoadData ==
    /\ pc \in {"load_daily", "load_hourly", "load_monthly", "load_weekly"}
    /\ \E reply \in Replies(QueryAt(pc)) :
         LET r == load_data(secrets, reply)
             ok == r.exc = NoException
             value(p, old) == IF ok /\ pc = p THEN r.frame ELSE old
         IN  /\ loads' = Append(loads, QueryAt(pc))
             /\ st_errors' = st_errors \o get_secrets(secrets)
             /\ rejected' = IF get_engine(secrets) = "engine" /\ reply = Rejected
                            THEN rejected \cup {QueryAt(pc)} ELSE rejected
             /\ sales_daily' = value("load_daily", sales_daily)
             /\ sales_hourly' = value("load_hourly", sales_hourly)
             /\ sales_monthly' = value("load_monthly", sales_monthly)
             /\ sales_weekly' = value("load_weekly", sales_weekly)
             /\ exception' = r.exc
             /\ pc' = IF ok THEN After(pc) ELSE "aborted"
    /\ UNCHANGED <<secrets, product, option, subheader, id_vars, value_vars, sales_data,
                   filtered_data, sales_data_comparative, sales_annual, charts>>

\* product = st.sidebar.selectbox(..., sales_daily.columns.difference([...])):
\* one of the options, None when there is none
SelectProduct ==
    /\ pc = "select_product"
    /\ LET options == Difference(sales_daily.columns, ProductExcluded)
       IN  product' \in (IF options = <<>> THEN {None} ELSE Range(options))
    /\ pc' = After(pc)
    /\ UNCHANGED <<secrets, loads, rejected, sales_daily, sales_hourly, sales_monthly,
                   sales_weekly, option, subheader, id_vars, value_vars, sales_data,
                   filtered_data, sales_data_comparative, sales_annual, charts,
                   st_errors, exception>>

\* option = st.sidebar.selectbox(..., ('Daily', 'Hourly', 'Weekly', 'Monthly'))
SelectOption ==
    /\ pc = "select_option"
    /\ option' \in Options
    /\ pc' = After(pc)
    /\ UNCHANGED <<secrets, loads, rejected, sales_daily, sales_hourly, sales_monthly,
                   sales_weekly, product, subheader, id_vars, value_vars, sales_data,
                   filtered_data, sales_data_comparative, sales_annual, charts,
                   st_errors, exception>>

\* product_info.replace(product, ...): a TypeError when product is None
Highlight ==
    /\ pc = "highlight"
    /\ exception' = IF product = None THEN Exc("TypeError", "highlight", <<>>)
                    ELSE exception
    /\ pc' = IF product = None THEN "aborted" ELSE After(pc)
    /\ UNCHANGED <<secrets, loads, rejected, sales_daily, sales_hourly, sales_monthly,
                   sales_weekly, product, option, subheader, id_vars, value_vars,
                   sales_data, filtered_data, sales_data_comparative, sales_annual,
                   charts, st_errors>>

\* The granularity branch (if / elif / elif / else): the table it reads, its
\* id_vars and its subheader
Resolve(opt) ==
    CASE opt = "Daily" ->
            [table |-> sales_daily, id_vars |-> <<"DATUM">>,
             subheader |-> "Daily Sales Overview"]
      [] opt = "Hourly" ->
            [table |-> sales_hourly, id_vars |-> <<"DATUM", "HOUR">>,
             subheader |-> "Hourly Sales Overview"]
      [] opt = "Weekly" ->
            [table |-> sales_weekly, id_vars |-> <<"DATUM">>,
             subheader |-> "Weekly Sales Overview"]
      [] OTHER ->
            [table |-> sales_monthly, id_vars |-> <<"DATUM">>,
             subheader |-> "Monthly Sales Overview"]

\* value_vars = <table>.columns.difference(['YEAR', 'MONTH', 'HOUR', 'WEEKDAY_NAME'])
ValueVars(df) == Difference(df.columns, ValueExcluded)

\* a single-product branch that reads sales_daily at every granularity
FilterProductDaily(opt, prod) ==
    LET names == IF opt = "Hourly" THEN <<"DATUM", "HOUR", prod>> ELSE <<"DATUM", prod>>
        s == Select(sales_daily, names)
    IN  IF s.exc # NoException THEN s
        ELSE [exc |-> NoException, frame |-> Rename(s.frame, prod, "SALES")]

\* The single-product branch (if / elif / elif / else):
\* <table>[['DATUM', product]].rename(columns={product: 'SALES'})
FilterProduct(opt, prod) ==
    LET df == CASE opt = "Daily" -> sales_daily
                [] opt = "Hourly" -> sales_hourly
                [] opt = "Weekly" -> sales_weekly
                [] OTHER -> sales_monthly
        names == IF opt = "Hourly" THEN <<"DATUM", "HOUR", prod>> ELSE <<"DATUM", prod>>
        s == Select(df, names)
    IN  IF s.exc # NoException THEN s
        ELSE [exc |-> NoException, frame |-> Rename(s.frame, prod, "SALES")]

\* the granularity branch: subheader, id_vars, value_vars, sales_data = melt_data(...)
Branch ==
    /\ pc = "branch"
    /\ LET r == Resolve(option)
           m == melt_data(r.table, r.id_vars, ValueVars(r.table))
       IN  /\ subheader' = r.subheader
           /\ id_vars' = r.id_vars
           /\ value_vars' = ValueVars(r.table)
           /\ sales_data' = m.frame
           /\ exception' = m.exc
           /\ pc' = IF m.exc = NoException THEN After(pc) ELSE "aborted"
    /\ UNCHANGED <<secrets, loads, rejected, sales_daily, sales_hourly, sales_monthly,
                   sales_weekly, product, option, filtered_data,
                   sales_data_comparative, sales_annual, charts, st_errors>>

\* filtered_data = <table>[[..., product]].rename(...)
FilteredData ==
    /\ pc = "filtered_data"
    /\ LET f == FilterProduct(option, product)
       IN  /\ filtered_data' = f.frame
           /\ exception' = f.exc
           /\ pc' = IF f.exc = NoException THEN After(pc) ELSE "aborted"
    /\ UNCHANGED <<secrets, loads, rejected, sales_daily, sales_hourly, sales_monthly,
                   sales_weekly, product, option, subheader, id_vars, value_vars,
                   sales_data, sales_data_comparative, sales_annual, charts, st_errors>>

\* st.plotly_chart(fig_prod), then st.plotly_chart(fig)
PlotlyChart ==
    /\ pc \in {"fig_prod", "fig"}
    /\ charts' = Append(charts, pc)
    /\ pc' = After(pc)
    /\ UNCHANGED <<secrets, loads, rejected, sales_daily, sales_hourly, sales_monthly,
                   sales_weekly, product, option, subheader, id_vars, value_vars,
                   sales_data, filtered_data, sales_data_comparative, sales_annual,
                   st_errors, exception>>

\* sales_data_comparative = sales_data.groupby('PRODUCT').agg({'SALES': 'sum'})
Comparative ==
    /\ pc = "comparative"
    /\ sales_data_comparative' = GroupBySum(sales_data, <<"PRODUCT">>)
    /\ charts' = Append(charts, "fig_comparative")
    /\ pc' = After(pc)
    /\ UNCHANGED <<secrets, loads, rejected, sales_daily, sales_hourly, sales_monthly,
                   sales_weekly, product, option, subheader, id_vars, value_vars,
                   sales_data, filtered_data, sales_annual, st_errors, exception>>

\* sales_data['YEAR'] = ...; sales_annual = sales_data.groupby(['YEAR', 'PRODUCT'])...:
\* a KeyError when the long frame has no DATUM
Annual ==
    /\ pc = "annual"
    /\ IF "DATUM" \in Range(sales_data.columns)
       THEN /\ sales_data' = AssignYear(sales_data)
            /\ sales_annual' = GroupBySum(AssignYear(sales_data), <<"YEAR", "PRODUCT">>)
            /\ charts' = Append(charts, "fig_annual")
            /\ pc' = After(pc)
            /\ UNCHANGED exception
       ELSE /\ exception' = Exc("KeyError", "annual", <<"DATUM">>)
            /\ pc' = "aborted"
            /\ UNCHANGED <<sales_data, sales_annual, charts>>
    /\ UNCHANGED <<secrets, loads, rejected, sales_daily, sales_hourly, sales_monthly,
                   sales_weekly, product, option, subheader, id_vars, value_vars,
                   filtered_data, sales_data_comparative, st_errors>>

\* st.plotly_chart(fig_histogram), the last statement
Histogram ==
    /\ pc = "histogram"
    /\ charts' = Append(charts, "fig_histogram")
    /\ pc' = After(pc)
    /\ UNCHANGED <<secrets, loads, rejected, sales_daily, sales_hourly, sales_monthly,
                   sales_weekly, product, option, subheader, id_vars, value_vars,
                   sales_data, filtered_data, sales_data_comparative, sales_annual,
                   st_errors, exception>>

Next ==
    \/ LoadData
    \/ SelectProduct
    \/ SelectOption
    \/ Highlight
    \/ Branch
    \/ FilteredData
    \/ PlotlyChart
    \/ Comparative
    \/ Annual
    \/ Histogram

\* One run of the script
Spec == Init /\ [][Next]_vars

----------------------------------------------------------------------------
(* The granularity branch on any option value *)

\* the option is any string, one outside the select box's four included
SelectAnyOption ==
    /\ pc = "select_option"
    /\ option' \in Options \cup {"Yearly"}
    /\ pc' = After(pc)
    /\ UNCHANGED <<secrets, loads, rejected, sales_daily, sales_hourly, sales_monthly,
                   sales_weekly, product, subheader, id_vars, value_vars, sales_data,
                   filtered_data, sales_data_comparative, sales_annual, charts,
                   st_errors, exception>>

NextAnyOption ==
    \/ LoadData
    \/ SelectProduct
    \/ SelectAnyOption
    \/ Highlight
    \/ Branch
    \/ FilteredData
    \/ PlotlyChart
    \/ Comparative
    \/ Annual
    \/ Histogram

SpecAnyOption == Init /\ [][NextAnyOption]_vars

----------------------------------------------------------------------------
(* melt_data and the two aggregations on any wide table *)

\* the time keys of the generated rows: two hours of one day, and a day of
\* another year
TimeKeys == {<<20191231, 8>>, <<20200101, 8>>, <<20200101, 9>>}

Observations ==
    {Obs(k[1], k[2], ab, ae) : k \in TimeKeys, ab \in 0..MaxSales, ae \in 0..MaxSales}

FnSchemas ==
    { <<"DATUM", "M01AB", "M01AE", "YEAR", "HOUR">>,
      <<"DATUM", "M01AB", "M01AE">>,
      <<"M01AB", "M01AE">> }

\* the wide tables of at most MaxRows rows
WideTables ==
    {WideFrame(s, obs) :
        s \in FnSchemas, obs \in UNION {[1..n -> Observations] : n \in 0..MaxRows}}

\* the id_vars of the two kinds of call site, and one without the date
IdVarChoices == {<<"DATUM">>, <<"DATUM", "HOUR">>, <<"HOUR">>}

\* the frame under test is held in sales_daily; id_vars and value_vars are the
\* arguments of the call
InitFn ==
    /\ secrets = "complete"
    /\ pc = "call_melt"
    /\ loads = <<>>
    /\ rejected = {}
    /\ sales_daily \in WideTables
    /\ sales_hourly = Undefined
    /\ sales_monthly = Undefined
    /\ sales_weekly = Undefined
    /\ product = None
    /\ option = None
    /\ subheader = None
    /\ id_vars \in IdVarChoices
    /\ value_vars \in {ValueVars(sales_daily),
                       Difference(sales_daily.columns, ProductExcluded)}
    /\ sales_data = Undefined
    /\ filtered_data = Undefined
    /\ sales_data_comparative = Undefined
    /\ sales_annual = Undefined
    /\ charts = <<>>
    /\ st_errors = <<>>
    /\ exception = NoException

\* sales_data = melt_data(df, id_vars, value_vars)
CallMelt ==
    /\ pc = "call_melt"
    /\ LET m == melt_data(sales_daily, id_vars, value_vars)
       IN  /\ sales_data' = m.frame
           /\ exception' = m.exc
           /\ pc' = IF m.exc = NoException THEN "comparative" ELSE "aborted"
    /\ UNCHANGED <<secrets, loads, rejected, sales_daily, sales_hourly, sales_monthly,
                   sales_weekly, product, option, subheader, id_vars, value_vars,
                   filtered_data, sales_data_comparative, sales_annual, charts,
                   st_errors>>

NextFn ==
    \/ CallMelt
    \/ Comparative
    \/ Annual

SpecFn == InitFn /\ [][NextFn]_vars

----------------------------------------------------------------------------
(* Properties *)

RECURSIVE SumSeq(_)
SumSeq(q) == IF q = <<>> THEN 0 ELSE q[1] + SumSeq(Tail(q))

\* the table of a granularity
TableOf(opt) ==
    CASE opt = "Daily" -> sales_daily
      [] opt = "Hourly" -> sales_hourly
      [] opt = "Weekly" -> sales_weekly
      [] opt = "Monthly" -> sales_monthly

AllQueries ==
    <<sales_daily_query, sales_hourly_query, sales_monthly_query, sales_weekly_query>>

\* the dataset a query is loaded into
DatasetOf(query) ==
    CASE query = sales_daily_query -> sales_daily
      [] query = sales_hourly_query -> sales_hourly
      [] query = sales_monthly_query -> sales_monthly
      [] query = sales_weekly_query -> sales_weekly

\* the identifier key of row i of a frame whose first columns are ids
KeyOfRow(df, ids, i) == [k \in 1..Len(ids) |-> Cell(df, i, ids[k])]

\* the SALES of the long records with this identifier key, summed
GroupSales(long, ids, key) ==
    SumSeq([n \in 1..Len(long.rows) |->
              IF KeyOfRow(long, ids, n) = key THEN Cell(long, n, "SALES") ELSE 0])

\* the cells of row i of the wide table in the columns cols, summed
RowSum(df, cols, i) ==
    SumSeq([k \in 1..Len(df.columns) |->
              IF df.columns[k] \in cols THEN df.rows[i][k] ELSE 0])

\* C1: melt_data returns rows(W) x |value_vars| long records, one per (row, value
\* column) pair: whenever the granularity branch has produced sales_data, it has as
\* many records as the table of the granularity has rows times the number of
\* value_vars handed to melt_data.
C1_RecordCount ==
    (option \in Options /\ sales_data # Undefined)
        => Len(sales_data.rows) = Len(TableOf(option).rows) * Len(value_vars)

C3_MissingColumn ==
    LET absent == {c \in Range(id_vars) : c \notin Range(sales_daily.columns)}
    IN  (pc # "call_melt" /\ absent # {}) =>
            /\ pc = "aborted"
            /\ exception.type = "KeyError"
            /\ exception.at = "melt_data"
            /\ Range(exception.names) = absent
            /\ Len(exception.names) = Cardinality(absent)
            /\ sales_data = Undefined
            /\ sales_data_comparative = Undefined
            /\ sales_annual = Undefined

\* id_vars = [DATUM, HOUR] against a table with neither
C3_Witness ==
    /\ pc = "aborted"
    /\ id_vars = <<"DATUM", "HOUR">>
    /\ sales_daily.columns = <<"M01AB", "M01AE">>
    /\ Len(sales_daily.rows) = MaxRows
    /\ exception.names = <<"DATUM", "HOUR">>

\* C4: at every granularity the value_vars handed to melt_data are the table's
\* columns minus YEAR, MONTH, HOUR, WEEKDAY_NAME and DATUM, hold no identifier
\* column of the granularity, and every PRODUCT of the long frame is a product code.
C4_ValueVars ==
    (option \in Options /\ subheader # None) =>
        /\ value_vars = Difference(TableOf(option).columns, ProductExcluded)
        /\ Range(value_vars) \cap Range(id_vars) = {}
        /\ sales_data # Undefined =>
              \A n \in 1..Len(sales_data.rows) :
                  Cell(sales_data, n, "PRODUCT") \notin ProductExcluded

\* C5: a product that is not a value column of the table of the selected
\* granularity never yields filtered_data, and the single-product branch, once
\* reached, fails with a KeyError naming the product.
C5_UnknownProduct ==
    (option \in Options
       /\ product \notin Range(Difference(TableOf(option).columns, ProductExcluded))) =>
        /\ filtered_data = Undefined
        /\ pc \notin {"fig_prod", "fig", "comparative", "annual", "histogram", "done"}
        /\ (sales_data # Undefined /\ pc # "filtered_data") =>
              /\ pc = "aborted"
              /\ exception = Exc("KeyError", "filtered_data", <<product>>)

\* a product of the daily table that the hourly table lacks, at Hourly
C5_Witness ==
    /\ option = "Hourly"
    /\ product = "M01AE"
    /\ "M01AE" \notin Range(sales_hourly.columns)
    /\ sales_data # Undefined
    /\ pc = "aborted"
    /\ exception.at = "filtered_data"

\* C6: with the configuration absent or incomplete the run shows an error as soon
\* as the first load has run, never gets past the product highlight (where a
\* None product ends it), and renders no chart.
C6_ConfigurationMissing ==
    secrets # "complete" =>
        /\ charts = <<>>
        /\ sales_data = Undefined
        /\ filtered_data = Undefined
        /\ pc \in {"load_daily", "load_hourly", "load_monthly", "load_weekly",
                   "select_product", "select_option", "highlight", "aborted"}
        /\ loads # <<>> => (st_errors # <<>> \/ exception # NoException)
        /\ pc \in {"select_option", "highlight"} => product = None
        /\ pc = "aborted" => exception # NoException

\* the run without a configuration: four messages, then the TypeError of the highlight
C6_Witness ==
    /\ secrets = "absent"
    /\ pc = "aborted"
    /\ Len(st_errors) = 4
    /\ exception.type = "TypeError"
    /\ charts = <<>>

\* C7: a query the warehouse rejects leaves its dataset an empty table, and
\* load_data does not end the run with an exception.
C7_RejectedQueryIsEmptyTable ==
    \A q \in rejected :
        /\ DatasetOf(q) = EmptyFrame
        /\ exception.at # "load_data"

C9_Aggregation ==
    /\ sales_data_comparative # Undefined =>
          LET agg == sales_data_comparative
              keys == {Cell(sales_data, n, "PRODUCT") : n \in 1..Len(sales_data.rows)}
          IN  /\ Len(agg.rows) = Cardinality(keys)
              /\ \A p \in keys :
                    \E i \in 1..Len(agg.rows) :
                        /\ agg.rows[i] =
                             <<p, SumSeq([n \in 1..Len(sales_data.rows) |->
                                            IF Cell(sales_data, n, "PRODUCT") = p
                                            THEN Cell(sales_data, n, "SALES") ELSE 0])>>
                        /\ \A j \in 1..Len(agg.rows) : agg.rows[j][1] = p => j = i
    /\ sales_annual # Undefined =>
          LET agg == sales_annual
              keyOf(n) == <<Year(Cell(sales_data, n, "DATUM")),
                            Cell(sales_data, n, "PRODUCT")>>
              keys == {keyOf(n) : n \in 1..Len(sales_data.rows)}
          IN  /\ Len(agg.rows) = Cardinality(keys)
              /\ \A key \in keys :
                    \E i \in 1..Len(agg.rows) :
                        /\ agg.rows[i] =
                             key \o <<SumSeq([n \in 1..Len(sales_data.rows) |->
                                                IF keyOf(n) = key
                                                THEN Cell(sales_data, n, "SALES")
                                                ELSE 0])>>
                        /\ \A j \in 1..Len(agg.rows) :
                              SubSeq(agg.rows[j], 1, 2) = key => j = i

\* the records of one product and one year are merged into one entry
C9_Witness ==
    /\ sales_annual # Undefined
    /\ sales_daily.columns = <<"DATUM", "M01AB", "M01AE">>
    /\ Len(sales_daily.rows) = MaxRows
    /\ Len(sales_data.rows) = 4
    /\ Len(sales_data_comparative.rows) = 2
    /\ Len(sales_annual.rows) = 2
    /\ \E i \in 1..Len(sales_annual.rows) : sales_annual.rows[i][3] = MaxSales + MaxSales

\* C10: load_data is called for daily, hourly, monthly, weekly in that order; all
\* four calls have returned before the product and the option are selected and
\* before any chart; a load that raises leaves the run without selection or chart.
C10_LoadsFirst ==
    /\ \E n \in 0..4 : loads = SubSeq(AllQueries, 1, n)
    /\ (pc \notin {"load_daily", "load_hourly", "load_monthly", "load_weekly", "aborted"}
          \/ option # None \/ product # None \/ charts # <<>>) =>
          /\ loads = AllQueries
          /\ \A q \in Range(AllQueries) : DatasetOf(q) # Undefined
    /\ (rejected # {} \/ exception.at \in {"load_data", "get_engine"}) =>
          /\ pc = "aborted"
          /\ option = None
          /\ charts = <<>>

\* a complete run: four loads, then the selections, then the five charts
C10_Witness ==
    /\ pc = "done"
    /\ loads = AllQueries
    /\ option = "Weekly"
    /\ Len(charts) = 5

====
